---- MODULE Spec2Model ----
(***************************************************************************)
(* Virtual C-Suite Boardroom API (src/main.py): the executive-response     *)
(* endpoint with its fan-out over get_executive_response, the in-memory    *)
(* chat history and analytics, the detached Slack notification and the     *)
(* chat-history endpoint.                                                  *)
(*                                                                         *)
(* One asyncio event loop runs every handler.  get_executive_response is   *)
(* declared async but contains no await: its body, the blocking OpenAI     *)
(* call included, runs in one piece on the loop thread.  A task is         *)
(* "running" while that call blocks the loop; nothing else on the loop     *)
(* moves meanwhile.  Only the Slack thread and the clock do.               *)
(***************************************************************************)
EXTENDS Integers, Sequences, FiniteSets, TLC

VARIABLES
    chat_history,    \* main.py:71   list of chat_entry dicts
    analytics_data,  \* main.py:72   the analytics dict
    pc,              \* per request slot: "idle", "gathering" (suspended at line 362), "returned"
    request,         \* per slot: the ExecutiveResponse body (message, executives)
    start_time,      \* per slot: line 343
    context,         \* per slot: lines 347-350
    tasks,           \* per slot: the coroutines handed to asyncio.gather, in order
    reply,           \* per slot: what the handler returned (lines 387-391, or 395)
    slack,           \* the detached notification tasks of line 385, one per stored turn
    slack_payload,   \* per notification task, the slack_payload it built (lines 245-266)
    history_reply,   \* what GET /api/chat-history last returned (line 400)
    analytics_reply, \* what GET /api/analytics last returned (lines 407-413)
    now              \* the process clock, datetime.now()

vars == <<chat_history, analytics_data, pc, request, start_time, context, tasks,
          reply, slack, slack_payload, history_reply, analytics_reply, now>>

-----------------------------------------------------------------------------
(* Bounds of the model *)

\* longest request.executives list a client sends
MaxExecs == 2
\* Spec: no request starts once this many turns are stored or in flight
MaxTurns == 1
\* SpecHistory: the same cap where the history is what matters
MaxHist == 5
\* SpecAnalytics: the same cap where the analytics are what matters
MaxRecords == 3
\* the clock stops advancing here
MaxClock == 2
\* clock ticks per calendar day
TicksPerDay == 2
\* SpecNotify: the same cap where the notifications are what matters
MaxNotes == 2
\* SpecConcurrent: the same cap where requests overlap
MaxCalls == 2

Min(a, b) == IF a <= b THEN a ELSE b
Max(a, b) == IF a >= b THEN a ELSE b

-----------------------------------------------------------------------------
(* Program constants *)

\* main.py:81-217, two of the eighteen entries; `in EXECUTIVES` tests the keys
EXECUTIVES ==
    [garrett |-> [name |-> "Garrett", title |-> "Chief Executive Officer (CEO)"],
     melon   |-> [name |-> "Melon",   title |-> "Chief Operating Officer (COO)"]]

\* an id a client may send that is no key of EXECUTIVES
UnknownIds == {"nobody"}
Ids == DOMAIN EXECUTIVES \cup UnknownIds

\* main.py:309, the string returned by the except branch of get_executive_response
FallbackInner ==
    "I apologize, but I'm currently unable to provide a response. Please try again shortly."
\* main.py:367, the string stored when gather hands back an exception
FallbackOuter ==
    "I apologize, but I'm currently unavailable. Please try again."
\* main.py:278
NotFound(executive_id) == "Executive " \o executive_id \o " not found."

\* main.py:398, limit: int = 10
DefaultLimit == 10

\* gather called without return_exceptions
ReturnExceptions_Off == FALSE

\* main.py:362, asyncio.gather(..., return_exceptions=True)
ReturnExceptions == TRUE

AllCalls == {1, 2}

-----------------------------------------------------------------------------
(* Python helpers *)

\* s[start:] for a list s: a negative start counts from the end, and both
\* ends are clamped to the list
PySliceFrom(s, start) ==
    LET n  == Len(s)
        lo == IF start < 0 THEN Max(n + start, 0) ELSE Min(start, n)
    IN  SubSeq(s, lo + 1, n)

\* sep.join(parts)
RECURSIVE PyJoin(_, _)
PyJoin(sep, parts) ==
    IF parts = <<>> THEN ""
    ELSE IF Len(parts) = 1 THEN parts[1]
    ELSE parts[1] \o sep \o PyJoin(sep, Tail(parts))

\* str.strip(): leading and trailing blanks removed
RECURSIVE PyStrip(_)
PyStrip(s) ==
    IF Len(s) = 0 THEN s
    ELSE IF SubSeq(s, 1, 1) = " " THEN PyStrip(SubSeq(s, 2, Len(s)))
    ELSE IF SubSeq(s, Len(s), Len(s)) = " " THEN PyStrip(SubSeq(s, 1, Len(s) - 1))
    ELSE s

\* an empty dict
EmptyDict == [k \in {} |-> ""]

\* d[k] = v on a dict held as a function
DictPut(d, k, v) == [x \in DOMAIN d \cup {k} |-> IF x = k THEN v ELSE d[x]]

\* datetime.now().strftime("%Y-%m-%d"): the calendar day of a clock value
Today(t) == t \div TicksPerDay

-----------------------------------------------------------------------------
(* The generation collaborator, as get_executive_response sees it *)

\* what the model may answer for a persona, before .strip()
Contents(executive_id) ==
    {"advice of " \o executive_id, " advice of " \o executive_id \o " "}

\* One call of client.chat.completions.create and what follows it:
\*   content  the call returns a completion with this message content
\*   none     the call returns a completion whose content is None
\*            (.strip() raises AttributeError inside the try)
\*   error    the call raises (timeout, transport, API error)
\*   escape   an exception leaves the coroutine: raised while the except
\*            branch handles the failure (line 308), so gather collects it
Outcomes(executive_id) ==
    {[kind |-> "content", content |-> c] : c \in Contents(executive_id)}
    \cup {[kind |-> k, content |-> ""] : k \in {"none", "error", "escape"}}

OutcomeKinds == {"content", "none", "error", "escape"}

\* a coroutine that has not run yet (line 358 only creates it)
NewTask(executive_id, ctx) ==
    [id |-> executive_id, context |-> ctx, state |-> "pending",
     failed |-> FALSE, value |-> ""]

\* main.py:274-309: the coroutine's end, given what the OpenAI call did.
\* state "returned": the coroutine returned `value`; "raised": it raised.
\* failed: the generation call did not yield a text.
get_executive_response(task, o) ==
    IF task.id \notin DOMAIN EXECUTIVES
    THEN [task EXCEPT !.state = "returned", !.value = NotFound(task.id)]
    ELSE IF o.kind = "content"
    THEN [task EXCEPT !.state = "returned", !.value = PyStrip(o.content)]
    ELSE IF o.kind \in {"none", "error"}
    THEN [task EXCEPT !.state = "returned", !.failed = TRUE, !.value = FallbackInner]
    ELSE [task EXCEPT !.state = "raised", !.failed = TRUE]

Settled(task) == task.state \in {"returned", "raised"}

-----------------------------------------------------------------------------
(* The handler of POST /api/executive-response, lines 340-395 *)

\* lines 346-350: " | ".join of "User: <message>" over chat_history[-3:];
\* no chat_entry has a 'user' key, so msg.get('user', 'User') is "User"
ContextLine(msg) ==
    (IF "user" \in DOMAIN msg THEN msg.user ELSE "User") \o ": "
    \o (IF "message" \in DOMAIN msg THEN msg.message ELSE "")

\* the window of lines 348-349 one turn short
DeriveContext_TwoTurns(history) ==
    IF Len(history) > 0
    THEN LET recent_messages == PySliceFrom(history, -2)
         IN  PyJoin(" | ", [i \in DOMAIN recent_messages |->
                                ContextLine(recent_messages[i])])
    ELSE ""

DeriveContext(history) ==
    IF Len(history) > 0
    THEN LET recent_messages == PySliceFrom(history, -3)
         IN  PyJoin(" | ", [i \in DOMAIN recent_messages |->
                                ContextLine(recent_messages[i])])
    ELSE ""

\* the membership test of line 357 left out
IsRegistered_Any(executive_id) == TRUE

\* line 357: the ids a coroutine is created for
IsRegistered(executive_id) == executive_id \in DOMAIN EXECUTIVES

\* lines 354-359: one coroutine per listed id that is a key of EXECUTIVES
RECURSIVE CreateTasks(_, _)
CreateTasks(executives, ctx) ==
    IF executives = <<>> THEN <<>>
    ELSE IF IsRegistered(Head(executives))
    THEN <<NewTask(Head(executives), ctx)>> \o CreateTasks(Tail(executives), ctx)
    ELSE CreateTasks(Tail(executives), ctx)

\* a first-completed wait in place of the gather
GatherDone_FirstSettled(ts) == \E i \in DOMAIN ts : ts[i].state \in {"returned", "raised"}

\* line 362: gather with return_exceptions=True resolves once every child
\* has settled; without it, the first exception resolves it
GatherDone(ts) ==
    \/ \A i \in DOMAIN ts : Settled(ts[i])
    \/ ~ReturnExceptions /\ \E i \in DOMAIN ts : ts[i].state = "raised"

\* line 362: whether the await raises into the handler
GatherRaises(ts) ==
    ~ReturnExceptions /\ \E i \in DOMAIN ts : ts[i].state = "raised"

\* lines 366-369: one entry of the responses dict
ResultEntry(task) ==
    IF task.state = "raised" THEN FallbackOuter ELSE task.value

\* the loop of lines 365-369 skipping the results that are exceptions
RECURSIVE ProcessResults_SkipRaised(_, _)
ProcessResults_SkipRaised(ts, responses) ==
    IF ts = <<>> THEN responses
    ELSE IF Head(ts).state = "raised"
    THEN ProcessResults_SkipRaised(Tail(ts), responses)
    ELSE ProcessResults_SkipRaised(Tail(ts),
             DictPut(responses, Head(ts).id, Head(ts).value))

\* lines 365-369: the responses dict, filled in task order
RECURSIVE ProcessResults(_, _)
ProcessResults(ts, responses) ==
    IF ts = <<>> THEN responses
    ELSE ProcessResults(Tail(ts),
                        DictPut(responses, Head(ts).id, ResultEntry(Head(ts))))

\* the loop of lines 224-228 storing 1 in both branches
CountUsage_Overwrite(usage, exec_id) ==
    IF \E i \in DOMAIN usage : usage[i].id = exec_id
    THEN [i \in DOMAIN usage |->
            IF usage[i].id = exec_id
            THEN [usage[i] EXCEPT !.count = 1] ELSE usage[i]]
    ELSE Append(usage, [id |-> exec_id, count |-> 1])

\* lines 224-228: one step of the usage loop; executive_usage keeps its
\* insertion order, as a Python dict does
CountUsage(usage, exec_id) ==
    IF \E i \in DOMAIN usage : usage[i].id = exec_id
    THEN [i \in DOMAIN usage |->
            IF usage[i].id = exec_id
            THEN [usage[i] EXCEPT !.count = @ + 1] ELSE usage[i]]
    ELSE Append(usage, [id |-> exec_id, count |-> 1])

RECURSIVE CountAll(_, _)
CountAll(usage, executive_list) ==
    IF executive_list = <<>> THEN usage
    ELSE CountAll(CountUsage(usage, Head(executive_list)), Tail(executive_list))

\* lines 220-236 with line 233 setting the day's count to 1
track_analytics_DayReset(a, executive_list, response_time, t) ==
    [total_conversations |-> a.total_conversations + 1,
     executive_usage     |-> CountAll(a.executive_usage, executive_list),
     daily_stats         |-> DictPut(a.daily_stats, Today(t), 1),
     response_times      |-> Append(a.response_times, response_time)]

\* lines 220-236 counting a conversation only when a persona was listed
track_analytics_SkipEmpty(a, executive_list, response_time, t) ==
    LET today == Today(t)
    IN  [total_conversations |->
             a.total_conversations + (IF executive_list = <<>> THEN 0 ELSE 1),
         executive_usage     |-> CountAll(a.executive_usage, executive_list),
         daily_stats         |->
             IF today \in DOMAIN a.daily_stats
             THEN [a.daily_stats EXCEPT ![today] = @ + 1]
             ELSE DictPut(a.daily_stats, today, 1),
         response_times      |-> Append(a.response_times, response_time)]

\* lines 220-236
track_analytics(a, executive_list, response_time, t) ==
    LET today == Today(t)
    IN  [total_conversations |-> a.total_conversations + 1,
         executive_usage     |-> CountAll(a.executive_usage, executive_list),
         daily_stats         |->
             IF today \in DOMAIN a.daily_stats
             THEN [a.daily_stats EXCEPT ![today] = @ + 1]
             ELSE DictPut(a.daily_stats, today, 1),
         response_times      |-> Append(a.response_times, response_time)]

NoReply == [status |-> 0, responses |-> EmptyDict, timestamp |-> 0,
            executives_consulted |-> 0]

\* a notification task that has built no payload (yet)
NoPayload == [text |-> "", consulted |-> "", topic |-> "", footer |-> "", ts |-> 0]

\* line 378 putting the newest turn first
StoreTurn_NewestFirst(history, chat_entry) == <<chat_entry>> \o history

\* line 378: chat_history.append(chat_entry)
StoreTurn(history, chat_entry) == Append(history, chat_entry)

\* line 373 stamping the turn with the start_time of line 343
EntryTimestamp_AtStart(st, t) == st

\* line 373: datetime.now() read after the join, at time t; st is the
\* start_time of line 343
EntryTimestamp(st, t) == t

\* lines 364-395, which run in one piece once the await of line 362 is over
Finish(r, req, st, ts, t) ==
    IF GatherRaises(ts)
    THEN \* lines 393-395
         /\ pc' = [pc EXCEPT ![r] = "returned"]
         /\ reply' = [reply EXCEPT ![r] = [NoReply EXCEPT !.status = 500]]
         /\ UNCHANGED <<chat_history, analytics_data, slack, slack_payload>>
    ELSE LET responses  == ProcessResults(ts, EmptyDict)
             chat_entry == [timestamp  |-> EntryTimestamp(st, t),
                            message    |-> req.message,
                            executives |-> req.executives,
                            responses  |-> responses]
         IN  /\ chat_history' = StoreTurn(chat_history, chat_entry)
             /\ analytics_data' =
                    track_analytics(analytics_data, req.executives, t - st, t)
             /\ slack' = Append(slack, "scheduled")
             /\ slack_payload' = Append(slack_payload, NoPayload)
             /\ reply' = [reply EXCEPT ![r] =
                            [status |-> 200,
                             responses |-> responses,
                             timestamp |-> chat_entry.timestamp,
                             executives_consulted |-> Cardinality(DOMAIN responses)]]
             /\ pc' = [pc EXCEPT ![r] = "returned"]

\* the blocking OpenAI call of some coroutine holds the loop thread
LoopBusy == \E r \in AllCalls : \E i \in DOMAIN tasks[r] : tasks[r][i].state = "running"

InFlight == Cardinality({r \in AllCalls : pc[r] = "gathering"})

\* A request arrives and its handler runs lines 343-362.  With no coroutine
\* to wait for, gather's future is already done and the await does not
\* suspend: the handler runs to its end in the same piece.
Start(r, msg, executives, dt) ==
    /\ ~LoopBusy
    /\ pc[r] \in {"idle", "returned"}
    /\ now + dt <= MaxClock
    /\ LET t   == now + dt
           req == [message |-> msg, executives |-> executives]
           ctx == DeriveContext(chat_history)
           ts  == CreateTasks(executives, ctx)
       IN  /\ now' = t
           /\ request' = [request EXCEPT ![r] = req]
           /\ start_time' = [start_time EXCEPT ![r] = t]
           /\ context' = [context EXCEPT ![r] = ctx]
           /\ tasks' = [tasks EXCEPT ![r] = ts]
           /\ IF ts = <<>>
              THEN Finish(r, req, t, ts, t)
              ELSE /\ pc' = [pc EXCEPT ![r] = "gathering"]
                   /\ reply' = [reply EXCEPT ![r] = NoReply]
                   /\ UNCHANGED <<chat_history, analytics_data, slack, slack_payload>>
           /\ UNCHANGED <<history_reply, analytics_reply>>

\* the coroutine reading the history when it runs instead of taking the
\* context argument bound at line 358
TaskStart_LateContext(r) ==
    /\ ~LoopBusy
    /\ pc[r] = "gathering"
    /\ \E i \in DOMAIN tasks[r] :
         /\ tasks[r][i].state = "pending"
         /\ \A j \in 1..(i - 1) : Settled(tasks[r][j])
         /\ tasks' = [tasks EXCEPT ![r][i].state = "running",
                                   ![r][i].context = DeriveContext(chat_history)]
    /\ UNCHANGED <<chat_history, analytics_data, pc, request, start_time, context,
                   reply, slack, slack_payload, history_reply, analytics_reply, now>>

\* The loop runs the next coroutine of the gather: the tasks were queued
\* together at line 362 and the loop takes them in that order.
TaskStart(r) ==
    /\ ~LoopBusy
    /\ pc[r] = "gathering"
    /\ \E i \in DOMAIN tasks[r] :
         /\ tasks[r][i].state = "pending"
         /\ \A j \in 1..(i - 1) : Settled(tasks[r][j])
         /\ tasks' = [tasks EXCEPT ![r][i].state = "running"]
    /\ UNCHANGED <<chat_history, analytics_data, pc, request, start_time, context,
                   reply, slack, slack_payload, history_reply, analytics_reply, now>>

\* The OpenAI call of the running coroutine ends, dt ticks later, and the
\* coroutine runs to its end.
TaskSettle(r, kind, dt) ==
    /\ now + dt <= MaxClock
    /\ \E i \in DOMAIN tasks[r] :
         /\ tasks[r][i].state = "running"
         /\ \E o \in Outcomes(tasks[r][i].id) :
              /\ o.kind = kind
              /\ tasks' = [tasks EXCEPT ![r][i] = get_executive_response(@, o)]
    /\ now' = now + dt
    /\ UNCHANGED <<chat_history, analytics_data, pc, request, start_time, context,
                   reply, slack, slack_payload, history_reply, analytics_reply>>

\* gather's future is done: the handler resumes after line 362
Join(r) ==
    /\ ~LoopBusy
    /\ pc[r] = "gathering"
    /\ GatherDone(tasks[r])
    /\ Finish(r, request[r], start_time[r], tasks[r], now)
    /\ UNCHANGED <<request, start_time, context, tasks, history_reply,
                   analytics_reply, now>>

-----------------------------------------------------------------------------
(* send_slack_notification, lines 238-272, run by asyncio.to_thread *)

\* main.py:258, the length a discussion topic is cut to
TruncateAt == 200

\* line 258 with the comparison len(message) >= 200
DiscussionTopic_CutAtLimit(message) ==
    IF Len(message) >= TruncateAt
    THEN SubSeq(message, 1, TruncateAt) \o "..."
    ELSE message

\* line 258: message[:200] + "..." if len(message) > 200 else message
DiscussionTopic(message) ==
    IF Len(message) > TruncateAt
    THEN SubSeq(message, 1, TruncateAt) \o "..."
    ELSE message

\* line 244: the names of the listed ids that are keys of EXECUTIVES
RECURSIVE ExecNames(_)
ExecNames(executives) ==
    IF executives = <<>> THEN <<>>
    ELSE IF Head(executives) \in DOMAIN EXECUTIVES
    THEN <<EXECUTIVES[Head(executives)].name>> \o ExecNames(Tail(executives))
    ELSE ExecNames(Tail(executives))

\* lines 245-266, the fields of slack_payload that carry data
SlackPayload(message, executives, t) ==
    [text      |-> "Executive Boardroom Discussion",
     consulted |-> PyJoin(", ", ExecNames(executives)),
     topic     |-> DiscussionTopic(message),
     footer    |-> "Virtual C-Suite Boardroom",
     ts        |-> t]

\* lines 241-272: what the function returns, as the task's final state
SlackResult(outcome) == IF outcome = "delivered" THEN "delivered" ELSE "failed"

\* lines 241-266: the payload task k has built when it ends; its arguments
\* are the message and the list of the request that stored turn k
PayloadBuilt(k, outcome) ==
    IF outcome = "unconfigured" THEN slack_payload[k]
    ELSE SlackPayload(chat_history[k].message, chat_history[k].executives, now)

\* the task created at line 385 gets its turn on the loop and hands the
\* function to a worker thread
SlackRun(k) ==
    /\ ~LoopBusy
    /\ slack[k] = "scheduled"
    /\ slack' = [slack EXCEPT ![k] = "running"]
    /\ UNCHANGED <<chat_history, analytics_data, pc, request, start_time, context,
                   tasks, reply, slack_payload, history_reply, analytics_reply, now>>

\* the notification's failure handed to the request that caused it
SlackSettle_Propagates(k, outcome) ==
    /\ slack[k] = "running"
    /\ slack' = [slack EXCEPT ![k] = SlackResult(outcome)]
    /\ slack_payload' = [slack_payload EXCEPT ![k] = PayloadBuilt(k, outcome)]
    /\ reply' = [r \in AllCalls |->
                   IF outcome = "failed" /\ reply[r].timestamp = chat_history[k].timestamp
                   THEN [reply[r] EXCEPT !.status = 500] ELSE reply[r]]
    /\ UNCHANGED <<chat_history, analytics_data, pc, request, start_time, context,
                   tasks, history_reply, analytics_reply, now>>

\* the function returns in its thread: True ("delivered") on a 200, False
\* ("failed") with another status or an exception (line 270), or with no
\* webhook configured ("unconfigured", line 242: nothing is built or sent)
SlackSettle(k, outcome) ==
    /\ slack[k] = "running"
    /\ slack' = [slack EXCEPT ![k] = SlackResult(outcome)]
    /\ slack_payload' = [slack_payload EXCEPT ![k] = PayloadBuilt(k, outcome)]
    /\ UNCHANGED <<chat_history, analytics_data, pc, request, start_time, context,
                   tasks, reply, history_reply, analytics_reply, now>>

-----------------------------------------------------------------------------
(* GET /api/chat-history, lines 397-400 *)

get_chat_history(limit) == PySliceFrom(chat_history, -limit)

GetChatHistory(limit) ==
    /\ ~LoopBusy
    /\ history_reply' = [limit |-> limit, history |-> get_chat_history(limit)]
    /\ UNCHANGED <<chat_history, analytics_data, pc, request, start_time, context,
                   tasks, reply, slack, slack_payload, analytics_reply, now>>

-----------------------------------------------------------------------------
(* GET /api/analytics, lines 402-413 *)

RECURSIVE PySum(_)
PySum(xs) == IF xs = <<>> THEN 0 ELSE Head(xs) + PySum(Tail(xs))

\* line 405 and round(avg_response_time, 2) of line 411, in hundredths of a
\* tick: the quotient rounded to the nearest hundredth, a tie to the even one
AverageResponseTime(response_times) ==
    IF response_times = <<>> THEN 0
    ELSE LET n == Len(response_times)
             q == (100 * PySum(response_times)) \div n
             m == (100 * PySum(response_times)) % n
         IN  IF 2 * m > n THEN q + 1
             ELSE IF 2 * m < n THEN q
             ELSE IF q % 2 = 0 THEN q ELSE q + 1

\* what the endpoint reports where Python has None
None == "None"

\* line 412: max(executive_usage.items(), key=count)[0], the first entry
\* in insertion order among those with the largest count; None when empty
MostPopular(usage) ==
    IF usage = <<>> THEN None
    ELSE LET i == CHOOSE i \in DOMAIN usage :
                     /\ \A j \in DOMAIN usage : usage[j].count <= usage[i].count
                     /\ \A j \in 1..(i - 1) : usage[j].count < usage[i].count
         IN  usage[i].id

get_analytics(a) ==
    [total_conversations    |-> a.total_conversations,
     executive_usage        |-> a.executive_usage,
     daily_stats            |-> a.daily_stats,
     average_response_time  |-> AverageResponseTime(a.response_times),
     most_popular_executive |-> MostPopular(a.executive_usage)]

NoAnalytics ==
    [total_conversations    |-> 0,
     executive_usage        |-> <<>>,
     daily_stats            |-> EmptyDict,
     average_response_time  |-> 0,
     most_popular_executive |-> None]

GetAnalytics ==
    /\ ~LoopBusy
    /\ analytics_reply' = get_analytics(analytics_data)
    /\ UNCHANGED <<chat_history, analytics_data, pc, request, start_time, context,
                   tasks, reply, slack, slack_payload, history_reply, now>>

-----------------------------------------------------------------------------
(* Inputs *)

Messages == {"a", "b"}

RECURSIVE SeqsUpTo(_, _)
SeqsUpTo(S, n) ==
    IF n = 0 THEN {<<>>}
    ELSE LET shorter == SeqsUpTo(S, n - 1)
         IN  shorter \cup {Append(s, x) : s \in shorter, x \in S}

ExecutiveLists == SeqsUpTo(Ids, MaxExecs)

\* the limits a client may ask the history for: none, some, more than
\* there are turns, and the default
Limits == 0..(MaxHist + 1) \cup {DefaultLimit}

\* lists to record: none, one id, two ids, one id twice, an unknown id
RecordLists ==
    {<<>>, <<"garrett">>, <<"garrett", "melon">>, <<"melon", "melon">>,
     <<"nobody", "garrett">>}

-----------------------------------------------------------------------------
(* Specifications *)

Init ==
    /\ chat_history = <<>>
    /\ analytics_data = [total_conversations |-> 0,
                         executive_usage     |-> <<>>,
                         daily_stats         |-> EmptyDict,
                         response_times      |-> <<>>]
    /\ pc = [r \in AllCalls |-> "idle"]
    /\ request = [r \in AllCalls |-> [message |-> "", executives |-> <<>>]]
    /\ start_time = [r \in AllCalls |-> 0]
    /\ context = [r \in AllCalls |-> ""]
    /\ tasks = [r \in AllCalls |-> <<>>]
    /\ reply = [r \in AllCalls |-> NoReply]
    /\ slack = <<>>
    /\ slack_payload = <<>>
    /\ analytics_reply = NoAnalytics
    /\ history_reply = [limit |-> DefaultLimit, history |-> <<>>]
    /\ now = 0

SlackOutcomes == {"delivered", "failed"}

\* One request at a time, every list of ids, every outcome of every
\* generation call, and the notification running beside the loop
Next ==
    \/ \E executives \in ExecutiveLists :
         /\ Len(chat_history) + InFlight < MaxTurns
         /\ Start(1, "a", executives, 0)
    \/ TaskStart(1)
    \/ \E kind \in OutcomeKinds : TaskSettle(1, kind, 0)
    \/ Join(1)
    \/ \E k \in DOMAIN slack : SlackRun(k)
    \/ \E k \in DOMAIN slack, outcome \in SlackOutcomes : SlackSettle(k, outcome)

Spec == Init /\ [][Next]_vars

\* The history as it grows: one request at a time, two messages, and the
\* history endpoint asked between any two steps of the loop
NextHistory ==
    \/ \E msg \in Messages :
         /\ Len(chat_history) + InFlight < MaxHist
         /\ Start(1, msg, <<"garrett">>, 0)
    \/ TaskStart(1)
    \/ TaskSettle(1, "content", 0)
    \/ Join(1)
    \/ \E limit \in Limits : GetChatHistory(limit)

SpecHistory == Init /\ [][NextHistory]_vars

\* The analytics as calls are recorded: one request at a time, the clock
\* advancing between requests and during the generation calls
NextAnalytics ==
    \/ \E executives \in RecordLists, dt \in {0, 1} :
         /\ Len(chat_history) + InFlight < MaxRecords
         /\ Start(1, "a", executives, dt)
    \/ TaskStart(1)
    \/ \E dt \in {0, 1} : TaskSettle(1, "content", dt)
    \/ Join(1)

SpecAnalytics == Init /\ [][NextAnalytics]_vars


\* a text of n characters in which no two windows at different offsets of
\* a period agree
RECURSIVE PatternBetween(_, _)
PatternBetween(lo, hi) ==
    IF lo > hi THEN ""
    ELSE IF lo = hi THEN SubSeq("abcdefg", (lo % 7) + 1, (lo % 7) + 1)
    ELSE LET mid == (lo + hi) \div 2
         IN  PatternBetween(lo, mid) \o PatternBetween(mid + 1, hi)

Pattern(n) == PatternBetween(1, n)

\* message lengths around the cut of line 258
MessageLengths == {0, 50, TruncateAt - 1, TruncateAt, TruncateAt + 1, 250}

LongMessages == {Pattern(n) : n \in MessageLengths}

\* the webhook answers 200, answers otherwise or fails, or is not configured
NotifyOutcomes == {"delivered", "failed", "unconfigured"}

\* The notification of every stored turn, for messages of the lengths
\* above, with no id, and with a list holding an unknown id
NextNotify ==
    \/ \E msg \in LongMessages, executives \in {<<>>, <<"nobody", "garrett">>} :
         /\ Len(chat_history) + InFlight < MaxNotes
         /\ Start(1, msg, executives, 0)
    \/ TaskStart(1)
    \/ TaskSettle(1, "content", 0)
    \/ Join(1)
    \/ \E k \in DOMAIN slack : SlackRun(k)
    \/ \E k \in DOMAIN slack, outcome \in NotifyOutcomes : SlackSettle(k, outcome)

SpecNotify == Init /\ [][NextNotify]_vars


\* lists for overlapping requests: no id, one id, two ids
ConcurrentLists == {<<>>, <<"garrett">>, <<"garrett", "melon">>}

\* Two requests in flight at once, their coroutines taken by the loop in
\* any order the loop allows, the clock ticking while a generation call
\* blocks, and both GET endpoints asked between any two steps
NextConcurrent ==
    \/ \E r \in AllCalls, msg \in Messages, executives \in ConcurrentLists :
         /\ Len(chat_history) + InFlight < MaxCalls
         /\ Start(r, msg, executives, 0)
    \/ \E r \in AllCalls : TaskStart(r)
    \/ \E r \in AllCalls, dt \in {0, 1} : TaskSettle(r, "content", dt)
    \/ \E r \in AllCalls : Join(r)
    \/ GetChatHistory(DefaultLimit)
    \/ GetAnalytics

SpecConcurrent == Init /\ [][NextConcurrent]_vars


\* lists that let either id be the first one recorded
PopularLists == {<<>>, <<"garrett">>, <<"melon">>}

\* Requests recorded one after another in either order of the ids, and the
\* analytics endpoint asked between any two steps
NextPopular ==
    \/ \E executives \in PopularLists :
         /\ Len(chat_history) + InFlight < MaxRecords
         /\ Start(1, "a", executives, 0)
    \/ TaskStart(1)
    \/ TaskSettle(1, "content", 0)
    \/ Join(1)
    \/ GetAnalytics

SpecPopular == Init /\ [][NextPopular]_vars


\* Two requests in flight at once.  The loop is fair to every callback it
\* holds: a coroutine that can be taken again and again is taken, a handler
\* whose gather is done is resumed.  The generation calls of request 1
\* all end; those of request 2 may never do.
NextLive ==
    \/ \E r \in AllCalls, executives \in {<<"garrett">>, <<"garrett", "melon">>} :
         /\ Len(chat_history) + InFlight < MaxCalls
         /\ Start(r, "a", executives, 0)
    \/ \E r \in AllCalls : TaskStart(r)
    \/ \E r \in AllCalls : TaskSettle(r, "content", 0)
    \/ \E r \in AllCalls : Join(r)

LoopFairness ==
    \A r \in AllCalls : SF_vars(TaskStart(r)) /\ SF_vars(Join(r))

SpecLive ==
    Init /\ [][NextLive]_vars /\ LoopFairness /\ WF_vars(TaskSettle(1, "content", 0))

-----------------------------------------------------------------------------
(* Properties *)

IdsOf(seq) == {seq[i] : i \in DOMAIN seq}

Returned(r) == pc[r] = "returned"

\* the generation call failed for every coroutine of this id / for none
NoneFailed(r, id) ==
    \A i \in DOMAIN tasks[r] : tasks[r][i].id = id => ~tasks[r][i].failed

\* the coroutine whose result the responses dict keeps for its id: the last
IsLastOfId(r, i) ==
    \A j \in DOMAIN tasks[r] : tasks[r][j].id = tasks[r][i].id => j <= i

\* C1: when every requested id is registered, the keys of the returned
\* responses are exactly the requested ids, whichever generation calls failed.
C1_KeysAreRequestedIds ==
    \A r \in AllCalls :
        (Returned(r) /\ IdsOf(request[r].executives) \subseteq DOMAIN EXECUTIVES)
        => /\ reply[r].status = 200
           /\ DOMAIN reply[r].responses = IdsOf(request[r].executives)

C1_Witness ==
    \E r \in AllCalls :
        /\ Returned(r)
        /\ request[r].executives = <<"garrett", "melon">>
        /\ tasks[r][1].failed /\ tasks[r][2].state = "raised"
        /\ DOMAIN reply[r].responses = {"garrett", "melon"}

\* C2: whichever generation calls fail, the call returns success, and every
\* persona none of whose calls failed has the text its own call generated.
C2_PartialFailureIsolation ==
    \A r \in AllCalls :
        Returned(r)
        => /\ reply[r].status = 200
           /\ \A i \in DOMAIN tasks[r] :
                NoneFailed(r, tasks[r][i].id)
                => /\ tasks[r][i].id \in DOMAIN reply[r].responses
                   /\ \E j \in DOMAIN tasks[r] :
                        /\ tasks[r][j].id = tasks[r][i].id
                        /\ reply[r].responses[tasks[r][i].id] = tasks[r][j].value
                   /\ reply[r].responses[tasks[r][i].id]
                        = "advice of " \o tasks[r][i].id

C2_Witness ==
    \E r \in AllCalls :
        /\ Returned(r)
        /\ reply[r].status = 200
        /\ Len(tasks[r]) = 2
        /\ tasks[r][1].state = "raised"
        /\ ~tasks[r][2].failed
        /\ tasks[r][2].id = "melon"
        /\ reply[r].responses["melon"] = "advice of melon"

\* C3: within one call, every generation call has started before any of
\* them has settled.
C3_AllStartedBeforeAnySettles ==
    \A r \in AllCalls :
        (\E i \in DOMAIN tasks[r] : Settled(tasks[r][i]))
        => \A j \in DOMAIN tasks[r] : tasks[r][j].state # "pending"

\* C4: no result is returned, and nothing is stored, while a generation
\* call of the request has yet to settle.
C4_WaitForAll ==
    \A r \in AllCalls :
        (\E i \in DOMAIN tasks[r] : ~Settled(tasks[r][i]))
        => /\ pc[r] = "gathering"
           /\ reply[r] = NoReply

C4_Witness ==
    \E r \in AllCalls :
        /\ pc[r] = "gathering"
        /\ Len(tasks[r]) = 2
        /\ Settled(tasks[r][1])
        /\ ~Settled(tasks[r][2])
        /\ reply[r] = NoReply

\* C5: no coroutine is created for an id that is not registered, and every
\* key of every responses dict, returned or stored, is a registered id.
C5_UnknownIdsDropped ==
    /\ \A r \in AllCalls :
         /\ \A i \in DOMAIN tasks[r] : tasks[r][i].id \in DOMAIN EXECUTIVES
         /\ DOMAIN reply[r].responses \subseteq DOMAIN EXECUTIVES
    /\ \A n \in DOMAIN chat_history :
         DOMAIN chat_history[n].responses \subseteq DOMAIN EXECUTIVES

C5_Witness ==
    \E r \in AllCalls :
        /\ Returned(r)
        /\ request[r].executives = <<"nobody", "garrett">>
        /\ Len(tasks[r]) = 1
        /\ DOMAIN reply[r].responses = {"garrett"}

\* the values the returned dicts hold for the ids whose generation call failed
FailedEntries ==
    UNION {{reply[r].responses[tasks[r][i].id] :
                i \in {j \in DOMAIN tasks[r] :
                          tasks[r][j].failed /\ IsLastOfId(r, j)}} :
           r \in {q \in AllCalls : Returned(q) /\ reply[q].status = 200}}

\* C6: a failed generation call leaves one and the same fallback text in the
\* responses, whichever persona, cause, or place of catching.
C6_OneFallbackText == Cardinality(FailedEntries) <= 1

\* C10: the handler returns in the step that creates the notification task,
\* which is then still unscheduled; and no step of the notification changes
\* a reply, a request's progress or the history.
C10_NotificationDetached ==
    [][/\ Len(chat_history') > Len(chat_history)
          => /\ slack' = Append(slack, "scheduled")
             /\ \E r \in AllCalls :
                  /\ pc'[r] = "returned"
                  /\ reply'[r].status = 200
                  /\ reply'[r].responses
                       = chat_history'[Len(chat_history')].responses
       /\ (slack' # slack /\ Len(slack') = Len(slack))
          => /\ reply' = reply
             /\ pc' = pc
             /\ chat_history' = chat_history]_vars

C10_Witness ==
    \E r \in AllCalls :
        /\ Returned(r)
        /\ reply[r].status = 200
        /\ Len(tasks[r]) = 2
        /\ Len(slack) = 1
        /\ slack[1] = "running"

\* the input messages of the last k turns, oldest first
LastMessages(history, k) ==
    [i \in 1..k |-> history[Len(history) - k + i].message]

\* the text a context is, built from up to three messages
ContextFrom(msgs) ==
    IF Len(msgs) = 0 THEN ""
    ELSE IF Len(msgs) = 1 THEN "User: " \o msgs[1]
    ELSE IF Len(msgs) = 2 THEN "User: " \o msgs[1] \o " | User: " \o msgs[2]
    ELSE "User: " \o msgs[1] \o " | User: " \o msgs[2] \o " | User: " \o msgs[3]

\* a request's handler runs its lines 343-362 in this step and creates
\* at least one coroutine
Starts(r) == pc[r] # "gathering" /\ pc'[r] = "gathering"

\* C7: the context a request computes, and hands to each of its generation
\* calls, is built from the messages of the last min(3, n) turns of the
\* n-turn history it starts from, oldest first, and is empty for n = 0.
C7_ContextWindow ==
    [][\A r \in AllCalls :
         Starts(r)
         => /\ context'[r] =
                 ContextFrom(LastMessages(chat_history, Min(3, Len(chat_history))))
            /\ \A i \in DOMAIN tasks'[r] : tasks'[r][i].context = context'[r]]_vars

C7_Witness ==
    \E r \in AllCalls :
        /\ pc[r] = "gathering"
        /\ Len(chat_history) = 4
        /\ LastMessages(chat_history, 4) = <<"a", "b", "b", "a">>
        /\ context[r] = "User: b | User: b | User: a"
        /\ tasks[r][1].context = context[r]

UsageOf(a, id) ==
    IF \E i \in DOMAIN a.executive_usage : a.executive_usage[i].id = id
    THEN LET i == CHOOSE i \in DOMAIN a.executive_usage :
                      a.executive_usage[i].id = id
         IN  a.executive_usage[i].count
    ELSE 0

DayCount(a, day) == IF day \in DOMAIN a.daily_stats THEN a.daily_stats[day] ELSE 0

Occurrences(L, id) == Cardinality({i \in DOMAIN L : L[i] = id})

\* C8: a step that records a call with list L (the list the same step
\* stores in the new turn) adds 1 to the total, adds to each id's usage its
\* number of occurrences in L, adds 1 to the bucket of the current day and
\* to no other, and appends one latency sample.
C8_RecordCounts ==
    [][analytics_data' # analytics_data
       => LET L == chat_history'[Len(chat_history')].executives
              a == analytics_data
              b == analytics_data'
          IN  /\ Len(chat_history') = Len(chat_history) + 1
              /\ b.total_conversations = a.total_conversations + 1
              /\ \A id \in Ids : UsageOf(b, id) = UsageOf(a, id) + Occurrences(L, id)
              /\ {b.executive_usage[i].id : i \in DOMAIN b.executive_usage}
                   \subseteq Ids
              /\ \A day \in 0..MaxClock :
                   DayCount(b, day) =
                     DayCount(a, day) + (IF day = Today(now') THEN 1 ELSE 0)
              /\ DOMAIN b.daily_stats \subseteq 0..MaxClock
              /\ Len(b.response_times) = Len(a.response_times) + 1
              /\ SubSeq(b.response_times, 1, Len(a.response_times))
                   = a.response_times]_vars

C8_Witness ==
    /\ Len(chat_history) = 2
    /\ chat_history[1].executives = <<"garrett", "melon">>
    /\ chat_history[2].executives = <<"garrett", "melon">>
    /\ analytics_data.total_conversations = 2
    /\ UsageOf(analytics_data, "garrett") = 2
    /\ UsageOf(analytics_data, "melon") = 2
    /\ Len(analytics_data.response_times) = 2
    /\ DayCount(analytics_data, 0) = 1
    /\ DayCount(analytics_data, 1) = 1

\* C9: the history endpoint answers a limit >= 0 with the most recent
\* min(limit, n) turns of the n stored, in stored order.
C9_MostRecentLimitTurns ==
    [][history_reply' # history_reply
       => LET n == Len(chat_history)
              k == Min(history_reply'.limit, n)
          IN  history_reply'.history = SubSeq(chat_history, n - k + 1, n)]_vars

-----------------------------------------------------------------------------
(* Notification payload, under SpecNotify *)

\* the notification tasks that have built a payload
Built == {k \in DOMAIN slack_payload : slack_payload[k] # NoPayload}

\* C11: in every payload built, the topic of a message longer than 200
\* characters is the message's first 200 characters followed by "...", and
\* the topic of a message of at most 200 characters, exactly 200 included,
\* is the message itself.
C11_Truncation ==
    \A k \in Built :
        LET m     == chat_history[k].message
            topic == slack_payload[k].topic
        IN  /\ Len(m) <= 200 => topic = m
            /\ Len(m) > 200 =>
                 /\ Len(topic) = 203
                 /\ SubSeq(topic, 1, 200) = SubSeq(m, 1, 200)
                 /\ SubSeq(topic, 201, 203) = "..."

\* a message of 250 characters cut, and one of exactly 200 passed unchanged
C11_Witness ==
    \E k \in Built, j \in Built :
        /\ Len(chat_history[k].message) = 250
        /\ Len(slack_payload[k].topic) = 203
        /\ Len(chat_history[j].message) = 200
        /\ slack_payload[j].topic = chat_history[j].message

-----------------------------------------------------------------------------
(* The empty list, under SpecAnalytics *)

\* call r is made with an empty list and runs to its end in this step
EmptyCall(r) ==
    /\ pc[r] # "gathering"
    /\ pc'[r] = "returned"
    /\ request'[r].executives = <<>>
    /\ start_time'[r] = now'
    /\ Len(chat_history') = Len(chat_history) + 1
    /\ chat_history'[Len(chat_history')].executives = <<>>

\* C12: a call with an empty list of ids creates no generation call and
\* returns status 200 with an empty response mapping and
\* executives_consulted = 0, and total_conversations grows by exactly 1.
C12_EmptyList ==
    [][\A r \in AllCalls :
         EmptyCall(r)
         => /\ tasks'[r] = <<>>
            /\ reply'[r].status = 200
            /\ reply'[r].responses = EmptyDict
            /\ reply'[r].executives_consulted = 0
            /\ analytics_data'.total_conversations =
                   analytics_data.total_conversations + 1]_vars

\* an empty call returned after a call with two ids: two conversations
C12_Witness ==
    /\ pc[1] = "returned"
    /\ request[1].executives = <<>>
    /\ reply[1].status = 200
    /\ reply[1].executives_consulted = 0
    /\ Len(chat_history) = 2
    /\ chat_history[1].executives = <<"garrett", "melon">>
    /\ chat_history[2].executives = <<>>
    /\ analytics_data.total_conversations = 2

-----------------------------------------------------------------------------
(* What a stored turn and a call's coroutines say of the ids, under Spec *)

\* C13: in every turn of the history, the set of ids stored as addressed
\* equals the key set of the turn's response mapping.
C13_StoredIdsAreKeys ==
    \A n \in DOMAIN chat_history :
        IdsOf(chat_history[n].executives) = DOMAIN chat_history[n].responses

\* C19: for every call that returned with status 200, the number of
\* generation calls it created equals the number of keys of its response
\* mapping.
C19_OneInvocationPerKey ==
    \A r \in AllCalls :
        (pc[r] = "returned" /\ reply[r].status = 200)
        => Len(tasks[r]) = Cardinality(DOMAIN reply[r].responses)

-----------------------------------------------------------------------------
(* Overlapping requests, under SpecConcurrent *)

\* sum(d.values()) of a dict of counts
RECURSIVE SumOfValues(_)
SumOfValues(d) ==
    IF DOMAIN d = {} THEN 0
    ELSE LET k == CHOOSE k \in DOMAIN d : TRUE
         IN  d[k] + SumOfValues([j \in DOMAIN d \ {k} |-> d[j]])

\* C14: in every state, whatever requests are suspended at their await,
\* total_conversations, the number of response_times samples, the sum of
\* the daily_stats counts and the number of turns of chat_history are equal.
C14_CountsAgree ==
    /\ analytics_data.total_conversations = Len(analytics_data.response_times)
    /\ analytics_data.total_conversations = SumOfValues(analytics_data.daily_stats)
    /\ analytics_data.total_conversations = Len(chat_history)

\* request 1 is suspended between two of its coroutines while request 2,
\* started after it, has stored its turn and been recorded
C14_Witness ==
    /\ pc[1] = "gathering"
    /\ Len(tasks[1]) = 2
    /\ Settled(tasks[1][1])
    /\ tasks[1][2].state = "pending"
    /\ pc[2] = "returned"
    /\ reply[2].status = 200
    /\ start_time[1] < start_time[2]
    /\ Len(chat_history) = 1
    /\ analytics_data.total_conversations = 1

\* C15: across every step (of a request's handler, of one of its
\* coroutines, of the history endpoint, of the analytics endpoint) the
\* history before the step is a prefix of the history after it.
C15_AppendOnly ==
    [][/\ Len(chat_history') >= Len(chat_history)
       /\ SubSeq(chat_history', 1, Len(chat_history)) = chat_history]_vars

\* two turns stored by overlapping requests, and both endpoints asked
\* after the first was stored
C15_Witness ==
    /\ Len(chat_history) = 2
    /\ chat_history[1].message # chat_history[2].message
    /\ Len(history_reply.history) = 1
    /\ analytics_reply.total_conversations = 1
    /\ \A r \in AllCalls : pc[r] = "returned"

\* C16: the timestamps of the turns of the history never decrease from one
\* turn to the next.
C16_Chronological ==
    \A n \in DOMAIN chat_history :
        n > 1 => chat_history[n - 1].timestamp <= chat_history[n].timestamp

\* request 1 started before request 2 and finished after it
C16_Witness ==
    /\ \A r \in AllCalls : pc[r] = "returned" /\ reply[r].status = 200
    /\ start_time[1] < start_time[2]
    /\ reply[2].timestamp < reply[1].timestamp
    /\ Len(chat_history) = 2
    /\ chat_history[1].timestamp = reply[2].timestamp
    /\ chat_history[2].timestamp = reply[1].timestamp

\* C17: the coroutines a request creates all carry the context built from
\* the history as it is when the request starts, and while the request is
\* suspended no step changes the context of any of them, whatever other
\* requests store meanwhile.
C17_SameContext ==
    [][\A r \in AllCalls :
         /\ Starts(r)
            => \A i \in DOMAIN tasks'[r] :
                 tasks'[r][i].context =
                   ContextFrom(LastMessages(chat_history, Min(3, Len(chat_history))))
         /\ pc[r] = "gathering"
            => /\ DOMAIN tasks'[r] = DOMAIN tasks[r]
               /\ \A i \in DOMAIN tasks[r] :
                    tasks'[r][i].context = tasks[r][i].context
         /\ \A i, j \in DOMAIN tasks'[r] :
              tasks'[r][i].context = tasks'[r][j].context]_vars

\* request 1's second coroutine runs with the context of the empty history
\* after request 2 has stored a turn
C17_Witness ==
    /\ pc[1] = "gathering"
    /\ Len(tasks[1]) = 2
    /\ Settled(tasks[1][1])
    /\ tasks[1][2].state = "running"
    /\ tasks[1][1].context = ""
    /\ tasks[1][2].context = ""
    /\ Len(chat_history) = 1
    /\ DeriveContext(chat_history) # ""

-----------------------------------------------------------------------------
(* The analytics summary, under SpecPopular *)

\* the usage entries in another order of first recording
Reorderings(usage) ==
    {[i \in DOMAIN usage |-> usage[p[i]]] : p \in Permutations(DOMAIN usage)}

\* the reported id has the largest count in the reported usage
ReportsAMaximum ==
    LET usage == analytics_reply.executive_usage
        mp    == analytics_reply.most_popular_executive
    IN  /\ usage = <<>> => mp = None
        /\ usage # <<>> =>
             \E i \in DOMAIN usage :
                 /\ usage[i].id = mp
                 /\ \A j \in DOMAIN usage : usage[j].count <= usage[i].count

\* C18: the id the summary reports has the largest count (None
\* with no usage), and the same counts recorded in any other order would
\* report the same id.
C18_TieBreakByCounts ==
    /\ ReportsAMaximum
    /\ \A other \in Reorderings(analytics_reply.executive_usage) :
           MostPopular(other) = analytics_reply.most_popular_executive

-----------------------------------------------------------------------------
(* Termination, under SpecLive *)

\* C20: with a fair loop and every generation call of request 1 ending,
\* request 1, once suspended at its await, eventually returns, whatever
\* request 2 and its generation calls do.
C20_Termination == (pc[1] = "gathering") ~> (pc[1] = "returned")

-----------------------------------------------------------------------------
(* The keys of the usage mapping, under SpecAnalytics *)

\* C21: every id that executive_usage holds a count for is a key of
\* EXECUTIVES.
C21_UsageKeysRegistered ==
    \A i \in DOMAIN analytics_data.executive_usage :
        analytics_data.executive_usage[i].id \in DOMAIN EXECUTIVES

====
